---- MODULE Spec2Model ----
(***************************************************************************)
(* A model of dabl/plot/utils.py: the stateless plotting helpers           *)
(* find_pretty_grid, _make_subplots, plot_coefficients, class_hists,       *)
(* _fill_missing_categorical, _prune_categories, _prune_category_make_X,   *)
(* _inlier_range and _find_inliers.                                        *)
(*                                                                         *)
(* Every helper is a single synchronous call.  The initial state holds one *)
(* pending call (the function and its arguments, drawn from bounded sets)  *)
(* and one action per function executes the whole call: it records what    *)
(* the call returned or raised, what it drew on the canvas, which warnings *)
(* it emitted and what became of the caller's table.                       *)
(*                                                                         *)
(* Floating point values are modelled as exact rationals (scaled           *)
(* integers); rounding is not modelled.                                    *)
(***************************************************************************)
EXTENDS Integers, Sequences, FiniteSets

VARIABLES
    pc,        \* "call": the call is pending; "done": it has completed
    call,      \* the pending call: [fn |-> name, ...arguments]
    ret,       \* outcome: [kind |-> "none" | "return" | "raise", ...]
    canvas,    \* what the call drew: [kind |-> "empty" | "bars" | "hists" | "grid", ...]
    warnings,  \* sequence of warnings emitted by the call
    X          \* the caller's table object (rows of the caller's DataFrame)

vars == <<pc, call, ret, canvas, warnings, X>>

----------------------------------------------------------------------------
(* Bounds of the model *)

MaxPlots == 30
MaxCols == 6
MaxNeg == 3
MaxDim == 4
MaxCoef == 4
MaxTop == 3
MaxBins == 12
MaxClasses == 2
NRows == 2
MaxColumns == 2
MaxLen == 3
MaxK == 3
MaxRun == 40
MaxBlocks == 3

----------------------------------------------------------------------------
(* Python arithmetic on integers *)

Abs(a) == IF a < 0 THEN -a ELSE a

Min(a, b) == IF a < b THEN a ELSE b

Max(a, b) == IF a > b THEN a ELSE b

\* a % b of Python (the sign of the result follows the divisor), b # 0
PyMod(a, b) == IF b > 0 THEN a % b ELSE -((-a) % (-b))

\* floor(a / b), b # 0
FloorDiv(a, b) == IF b > 0 THEN a \div b ELSE (-a) \div (-b)

\* int(a / b): true division, truncated toward zero, b # 0
IntTrueDiv(a, b) ==
    IF (a >= 0) = (b > 0) THEN Abs(a) \div Abs(b) ELSE -(Abs(a) \div Abs(b))

\* int(np.ceil(a / b)), b # 0
IntCeilDiv(a, b) == -FloorDiv(-a, b)

Return(v) == [kind |-> "return", value |-> v]

Raise(e) == [kind |-> "raise", exc |-> e]

NoRet == [kind |-> "none"]

EmptyCanvas == [kind |-> "empty"]

----------------------------------------------------------------------------
(* find_pretty_grid *)

\* the empty cells left in the last row when n_plots are laid out on cols columns
EmptyCells(n_plots, cols) ==
    LET remainder == PyMod(n_plots, cols)
    IN  IF remainder # 0 THEN cols - remainder ELSE 0

IsBetter_ties(empty, best_empty) == empty <= best_empty

\* line 67: a candidate replaces the best one only when strictly better
IsBetter(empty, best_empty) == empty < best_empty

FallbackRows_floor(n_plots, best_cols) == IntTrueDiv(n_plots, best_cols)

\* line 70: the row count of the fallback
FallbackRows(n_plots, best_cols) == IntCeilDiv(n_plots, best_cols)

RECURSIVE ScanCols(_, _, _, _, _)
\* lines 61-70: for cols in range(max_cols, min_rows - 1, -1), then the fallback
ScanCols(n_plots, cols, min_rows, best_empty, best_cols) ==
    IF cols < min_rows
    THEN Return(<<FallbackRows(n_plots, best_cols), best_cols>>)
    ELSE IF cols = 0
    THEN Raise("ZeroDivisionError")
    ELSE LET empty == EmptyCells(n_plots, cols)
         IN  IF empty = 0
             THEN Return(<<IntTrueDiv(n_plots, cols), cols>>)
             ELSE IF IsBetter(empty, best_empty)
             THEN ScanCols(n_plots, cols - 1, min_rows, empty, cols)
             ELSE ScanCols(n_plots, cols - 1, min_rows, best_empty, best_cols)

find_pretty_grid(n_plots, max_cols) ==
    IF max_cols = 0
    THEN Raise("ZeroDivisionError")
    ELSE IF PyMod(n_plots, max_cols) = 0
    THEN Return(<<IntTrueDiv(n_plots, max_cols), max_cols>>)
    ELSE LET min_rows == IntCeilDiv(n_plots, max_cols)
         IN  ScanCols(n_plots, max_cols, min_rows, max_cols, max_cols)

GridCalls ==
    [fn : {"find_pretty_grid"}, n_plots : (-MaxNeg)..MaxPlots,
     max_cols : (-MaxNeg)..MaxCols]

FindPrettyGrid ==
    /\ pc = "call"
    /\ call.fn = "find_pretty_grid"
    /\ ret' = find_pretty_grid(call.n_plots, call.max_cols)
    /\ pc' = "done"
    /\ UNCHANGED <<call, canvas, warnings, X>>

----------------------------------------------------------------------------
(* _make_subplots *)

SubplotCalls ==
    [fn : {"_make_subplots"}, n_plots : 1..MaxPlots, max_cols : 1..MaxCols]

\* plt.subplots(n_rows, n_cols) squeezes its result; np.atleast_2d restores
\* two axes, which turns a column of r axes into the shape (1, r)
AxesShape(n_rows, n_cols) ==
    IF n_cols = 1 THEN <<1, n_rows>> ELSE <<n_rows, n_cols>>

MakeSubplots ==
    /\ pc = "call"
    /\ call.fn = "_make_subplots"
    /\ LET grid == find_pretty_grid(call.n_plots, call.max_cols)
       IN  IF grid.kind = "raise"
           THEN /\ ret' = grid
                /\ canvas' = canvas
           ELSE IF grid.value[1] <= 0 \/ grid.value[2] <= 0
           THEN /\ ret' = Raise("ValueError")
                /\ canvas' = canvas
           ELSE /\ canvas' = [kind |-> "grid", n_rows |-> grid.value[1],
                              n_cols |-> grid.value[2]]
                /\ ret' = Return(AxesShape(grid.value[1], grid.value[2]))
    /\ pc' = "done"
    /\ UNCHANGED <<call, warnings, X>>

----------------------------------------------------------------------------
(* plot_coefficients *)

\* the values a coefficient takes
CoefValues == {-2, -1, 0, 1}

NameList == <<"f1", "f2", "f3", "f4", "f5", "f6">>

RECURSIVE Size(_)
\* the number of elements of an array of the given shape
Size(shape) == IF shape = <<>> THEN 1 ELSE Head(shape) * Size(Tail(shape))

IsNotOne(d) == d # 1

squeeze_identity(shape) == shape

\* ndarray.squeeze(): the axes of length one are removed
squeeze(shape) == SelectSeq(shape, IsNotOne)

\* seq[start:] of Python, for any integer start
SliceFrom(seq, start) ==
    LET from == IF start < 0 THEN Max(Len(seq) + start, 0) ELSE Min(start, Len(seq))
    IN  SubSeq(seq, from + 1, Len(seq))

\* the positions where the predicate holds, ascending (boolean mask indexing)
RECURSIVE Nonzero(_, _)
Nonzero(coef, i) ==
    IF i > Len(coef) THEN <<>>
    ELSE IF coef[i] # 0 THEN <<i>> \o Nonzero(coef, i + 1)
    ELSE Nonzero(coef, i + 1)

RECURSIVE SortOrders(_, _)
\* the orders in which the positions in rest can follow each other so that a
\* ascends
SortOrders(a, rest) ==
    IF rest = {} THEN {<<>>}
    ELSE LET least == {i \in rest : \A j \in rest : a[i] <= a[j]}
         IN  UNION {{<<i>> \o o : o \in SortOrders(a, rest \ {i})} : i \in least}

\* np.argsort(a): an index order that sorts a ascending; the default sort is
\* not stable, so equal keys may come out in any order
ArgSorts(a) == SortOrders(a, DOMAIN a)

Take(a, idx) == [i \in 1..Len(idx) |-> a[idx[i]]]

AbsAll(a) == [i \in 1..Len(a) |-> Abs(a[i])]

\* the shapes of the coefficient array: a scalar, a vector (possibly empty)
\* and the arrays of two axes
Shapes ==
    {sh \in {<<>>} \cup [1..1 -> 0..MaxDim] \cup [1..2 -> 1..MaxDim] :
        Size(sh) <= MaxCoef}

CoefCalls ==
    UNION {
        [fn : {"plot_coefficients"},
         shape : {shape},
         coefficients : [1..Size(shape) -> CoefValues],
         feature_names : {SubSeq(NameList, 1, m) : m \in 0..MaxCoef},
         n_top_features : 0..MaxTop]
        : shape \in Shapes }

PlotCoefficients ==
    /\ pc = "call"
    /\ call.fn = "plot_coefficients"
    /\ LET coefficients == call.coefficients
           names == call.feature_names
       IN  IF Len(squeeze(call.shape)) > 1
           THEN /\ ret' = Raise("ValueError")
                /\ canvas' = canvas
           ELSE IF Len(coefficients) # Len(names)
           THEN /\ ret' = Raise("ValueError")
                /\ canvas' = canvas
           ELSE LET mask == Nonzero(coefficients, 1)
                    coef == Take(coefficients, mask)
                    feature_names == Take(names, mask)
                IN  \E by_abs \in ArgSorts(AbsAll(coef)) :
                      LET top == SliceFrom(by_abs, -call.n_top_features)
                      IN  \E new_inds \in ArgSorts(Take(coef, top)) :
                            LET interesting_coefficients == Take(top, new_inds)
                            IN  /\ canvas' =
                                     [kind |-> "bars",
                                      heights |-> Take(coef, interesting_coefficients),
                                      labels |-> Take(feature_names,
                                                      interesting_coefficients)]
                                /\ ret' = Return(<<>>)
    /\ pc' = "done"
    /\ UNCHANGED <<call, warnings, X>>

----------------------------------------------------------------------------
(* class_hists *)

\* line 424: the fewest bin edges accepted from the requested binning
MinEdges == 10

\* line 425: the number of bins of the replacement binning
DefaultBins == 10

\* len(np.histogram_bin_edges(col_data, bins)): an integer asks for that many
\* bins, "auto" finds a number of bins from the data (bins.n), and an array
\* of edges is returned as it is
histogram_bin_edges(bins) ==
    IF bins.kind = "edges" THEN bins.n ELSE bins.n + 1

HistCalls ==
    [fn : {"class_hists"},
     bins : [kind : {"auto", "int"}, n : 1..MaxBins]
            \cup [kind : {"edges"}, n : 2..(MaxBins + 1)],
     n_classes : 1..MaxClasses]

ClassHists ==
    /\ pc = "call"
    /\ call.fn = "class_hists"
    /\ LET requested == histogram_bin_edges(call.bins)
           bin_edges == IF requested < MinEdges
                        THEN histogram_bin_edges([kind |-> "int", n |-> DefaultBins])
                        ELSE requested
       IN  canvas' = [kind |-> "hists", n_edges |-> bin_edges,
                      bars_per_class |-> bin_edges - 1,
                      n_classes |-> call.n_classes]
    /\ ret' = Return(<<>>)
    /\ pc' = "done"
    /\ UNCHANGED <<call, warnings, X>>

----------------------------------------------------------------------------
(* _fill_missing_categorical *)

\* a table cell: missing (na), or a string s (object and other columns), or a
\* number x (numeric columns)
NA == [na |-> TRUE, s |-> "", x |-> 0]

Str(v) == [na |-> FALSE, s |-> v, x |-> 0]

Num(v) == [na |-> FALSE, s |-> "", x |-> v]

NaN == [nan |-> TRUE, x |-> 0]

Finite(v) == [nan |-> FALSE, x |-> v]

NumValues == {-1, 2}

\* a column is its dtype and its cells; "other" stands for the dtypes that are
\* neither object nor numeric (datetime, category)
Columns ==
    [dtype : {"object"}, cells : [1..NRows -> {NA, Str("a")}]]
    \cup [dtype : {"numeric"}, cells : [1..NRows -> {NA} \cup {Num(v) : v \in NumValues}]]
    \cup [dtype : {"other"}, cells : [1..NRows -> {NA, Str("t")}]]

Tables == UNION {[1..k -> Columns] : k \in 0..MaxColumns}

\* X.max(numeric_only=True).max(): the largest non-missing value of the
\* numeric columns, NaN when there is none
NumericMax(table) ==
    LET values == {table[c].cells[r].x :
                      <<c, r>> \in {cr \in (DOMAIN table) \X (1..NRows) :
                                      /\ table[cr[1]].dtype = "numeric"
                                      /\ ~table[cr[1]].cells[cr[2]].na}}
    IN  IF values = {} THEN NaN
        ELSE Finite(CHOOSE v \in values : \A w \in values : w <= v)

\* max_value + 1
PlusOne(v) == IF v.nan THEN NaN ELSE Finite(v.x + 1)

\* Series.fillna(value): every missing cell becomes the value
fillna(cells, value) ==
    [r \in DOMAIN cells |-> IF cells[r].na THEN value ELSE cells[r]]

\* Series.fillna(max_value + 1): filling with NaN leaves the cells missing
fillna_number(cells, value) ==
    IF value.nan THEN cells ELSE fillna(cells, Num(value.x))

\* lines 283-288: the fill of every column of the table
FillColumns(table) ==
    LET max_value == NumericMax(table)
    IN  [c \in DOMAIN table |->
            IF table[c].dtype = "object"
            THEN [table[c] EXCEPT !.cells = fillna(@, Str("dabl_missing"))]
            ELSE [table[c] EXCEPT !.cells = fillna_number(@, PlusOne(max_value))]]

FillCalls == [fn : {"_fill_missing_categorical"}, X : Tables]

\* The function fills a copy of X and returns it.  A number put into a column
\* that is neither object nor numeric is refused by some dtypes (category) and
\* taken by others (datetime): either outcome is possible.
FillMissingCategorical ==
    /\ pc = "call"
    /\ call.fn = "_fill_missing_categorical"
    /\ LET copy == X
           refusable == \E c \in DOMAIN copy :
                            copy[c].dtype = "other" /\ ~NumericMax(copy).nan
       IN  \/ ret' = Return(FillColumns(copy))
           \/ /\ refusable
              /\ \E e \in {"ValueError", "TypeError"} : ret' = Raise(e)
    /\ pc' = "done"
    /\ UNCHANGED <<call, canvas, warnings, X>>

(* _prune_categories and _prune_category_make_X *)

\* line 270: at most this many categories are kept by _prune_category_make_X
PruneCap == 10

Categories == {"a", "b", "dabl_other"}

SeriesOfCategories ==
    UNION {[1..n -> {NA} \cup {Str(c) : c \in Categories}] : n \in 0..MaxLen}

\* the number of entries of the series holding category c
Count(series, c) == Cardinality({i \in DOMAIN series : series[i] = Str(c)})

\* series.astype('category'): the categories are the distinct values present
CategoriesOf(series) == {c \in Categories : Count(series, c) > 0}

\* series.value_counts().index: the categories by descending count; categories
\* of equal count come in any order
ValueCountOrders(series) ==
    LET cats == CategoriesOf(series)
        n == Cardinality(cats)
    IN  {o \in [1..n -> cats] :
            /\ \A i, j \in 1..n : i # j => o[i] # o[j]
            /\ \A i \in 1..(n - 1) : Count(series, o[i]) >= Count(series, o[i + 1])}

Range(f) == {f[i] : i \in DOMAIN f}

\* lines 258-262 for one order of value_counts: the small categories are
\* removed (their entries become missing), 'dabl_other' is added as a new
\* category, which raises when the category is still present, and the
\* missing entries are filled with it
prune_categories(series, order, max_categories) ==
    LET small_categories == Range(SliceFrom(order, max_categories))
        removed == [i \in DOMAIN series |->
                       IF ~series[i].na /\ series[i].s \in small_categories
                       THEN NA ELSE series[i]]
        left == CategoriesOf(series) \ small_categories
    IN  IF "dabl_other" \in left
        THEN Raise("ValueError")
        ELSE Return(fillna(removed, Str("dabl_other")))

PruneCalls ==
    [fn : {"_prune_categories"}, series : SeriesOfCategories,
     max_categories : 0..MaxK]

PruneCategories ==
    /\ pc = "call"
    /\ call.fn = "_prune_categories"
    /\ \E order \in ValueCountOrders(call.series) :
          ret' = prune_categories(call.series, order, call.max_categories)
    /\ pc' = "done"
    /\ UNCHANGED <<call, canvas, warnings, X>>

\* the caller's table has a target column, the column col and one more column
TableColumns == <<"target", "col", "extra">>

MakeXCalls ==
    [fn : {"_prune_category_make_X"}, col_values : SeriesOfCategories,
     max_categories : 0..MaxK]

PruneCategoryMakeX ==
    /\ pc = "call"
    /\ call.fn = "_prune_category_make_X"
    /\ IF Cardinality(CategoriesOf(call.col_values)) > call.max_categories
       THEN \E order \in ValueCountOrders(call.col_values) :
              LET pruned == prune_categories(call.col_values, order,
                                             Min(PruneCap, call.max_categories))
              IN  ret' = IF pruned.kind = "raise" THEN pruned
                         ELSE Return([columns |-> <<"target", "col">>,
                                      col |-> pruned.value])
       ELSE ret' = Return([columns |-> TableColumns, col |-> call.col_values])
    /\ pc' = "done"
    /\ UNCHANGED <<call, canvas, warnings, X>>

----------------------------------------------------------------------------
(* _inlier_range and _find_inliers *)

\* quantiles are held in hundredths: 100 * np.nanquantile(series, pct / 100)
Hundred == 100

\* line 448: the low quantile, in percent
LowPct == 1

\* line 449: the high quantile, in percent
HighPct == 99

SeriesValues == {0, 5, 6}

\* a numeric series is given as runs of equal entries
Blocks ==
    UNION {[1..k -> [cell : {NA} \cup {Num(v) : v \in SeriesValues},
                     run : {1, MaxRun}]] : k \in 0..MaxBlocks}

RECURSIVE Expand(_)
Expand(blocks) ==
    IF blocks = <<>> THEN <<>>
    ELSE [i \in 1..Head(blocks).run |-> Head(blocks).cell] \o Expand(Tail(blocks))

NumericSeries == {Expand(b) : b \in Blocks}

Present(series) == {i \in DOMAIN series : ~series[i].na}

\* 100 * np.nanquantile(series, pct / 100): the missing entries are left out,
\* the values sorted, and the result interpolated linearly between the two
\* order statistics around position (n - 1) * pct / 100; NaN when no value is
\* present
nanquantile(series, pct) ==
    LET present == Present(series)
        n == Cardinality(present)
        values == {series[i].x : i \in present}
        at_most == [v \in values |-> Cardinality({i \in present : series[i].x <= v})]
        \* the k-th smallest value, k counted from 0
        sorted(k) == CHOOSE v \in values :
                        /\ at_most[v] > k
                        /\ \A w \in values : at_most[w] > k => v <= w
        position == (n - 1) * pct
        below == position \div Hundred
        fraction == position % Hundred
    IN  IF n = 0 THEN NaN
        ELSE IF fraction = 0 THEN Finite(Hundred * sorted(below))
        ELSE Finite(Hundred * sorted(below)
                    + fraction * (sorted(below + 1) - sorted(below)))

inner_range_whole(low, high) == 2 * (high - low)

\* line 452: inner_range = (high - low) / 2, in two-hundredths for low and
\* high in hundredths
inner_range(low, high) == high - low

\* lines 447-453; the range is returned in two-hundredths
InlierRange(series) ==
    LET low == nanquantile(series, LowPct)
        high == nanquantile(series, HighPct)
    IN  IF low.nan \/ high.nan \/ ~(low.x < high.x)
        THEN Raise("AssertionError")
        ELSE Return(<<2 * low.x - inner_range(low.x, high.x),
                      2 * high.x + inner_range(low.x, high.x)>>)

\* series.between(low, high): both ends included, false for a missing entry
between(series, low, high) ==
    [i \in DOMAIN series |->
        /\ ~series[i].na
        /\ low <= 2 * Hundred * series[i].x
        /\ 2 * Hundred * series[i].x <= high]

InlierRangeCalls == [fn : {"_inlier_range"}, series : NumericSeries]

InlierRangeCall ==
    /\ pc = "call"
    /\ call.fn = "_inlier_range"
    /\ ret' = InlierRange(call.series)
    /\ pc' = "done"
    /\ UNCHANGED <<call, canvas, warnings, X>>

FindInliersCalls == [fn : {"_find_inliers"}, series : NumericSeries]

\* lines 456-464 for the range that _inlier_range returned
MaskAndWarn(range) ==
    \E mask \in {[i \in DOMAIN call.series |->
                    between(call.series, range[1], range[2])[i]
                    \/ call.series[i].na]} :
       \E dropped \in {Len(mask) - Cardinality({i \in DOMAIN mask : mask[i]})} :
          /\ warnings' = IF dropped > 0
                         THEN Append(warnings, [category |-> "UserWarning",
                                                dropped |-> dropped])
                         ELSE warnings
          /\ ret' = Return(mask)

FindInliers ==
    /\ pc = "call"
    /\ call.fn = "_find_inliers"
    /\ \E range \in {InlierRange(call.series)} :
          IF range.kind = "raise"
          THEN /\ ret' = range
               /\ warnings' = warnings
          ELSE MaskAndWarn(range.value)
    /\ pc' = "done"
    /\ UNCHANGED <<call, canvas, X>>

----------------------------------------------------------------------------

(* Specifications: one per group of functions.  Every call starts from a
   fresh state, with nothing returned, drawn or warned about yet. *)

Fresh ==
    /\ pc = "call"
    /\ ret = NoRet
    /\ canvas = EmptyCanvas
    /\ warnings = <<>>

InitGrid ==
    /\ Fresh
    /\ call \in GridCalls \/ call \in SubplotCalls
    /\ X = <<>>

NextGrid ==
    \/ FindPrettyGrid
    \/ MakeSubplots

SpecGrid == InitGrid /\ [][NextGrid]_vars

InitCoef ==
    /\ Fresh
    /\ call \in CoefCalls
    /\ X = <<>>

SpecCoef == InitCoef /\ [][PlotCoefficients]_vars

InitHist ==
    /\ Fresh
    /\ call \in HistCalls
    /\ X = <<>>

SpecHist == InitHist /\ [][ClassHists]_vars

InitFill ==
    /\ Fresh
    /\ call \in FillCalls
    /\ X = call.X

SpecFill == InitFill /\ [][FillMissingCategorical]_vars

InitPrune ==
    /\ Fresh
    /\ call \in PruneCalls \/ call \in MakeXCalls
    /\ X = <<>>

NextPrune ==
    \/ PruneCategories
    \/ PruneCategoryMakeX

SpecPrune == InitPrune /\ [][NextPrune]_vars

InitInlier ==
    /\ Fresh
    /\ call \in InlierRangeCalls \/ call \in FindInliersCalls
    /\ X = <<>>

NextInlier ==
    \/ InlierRangeCall
    \/ FindInliers

SpecInlier == InitInlier /\ [][NextInlier]_vars

----------------------------------------------------------------------------
(* Claims about find_pretty_grid *)

GridDone == pc = "done" /\ call.fn = "find_pretty_grid"

Positive == call.n_plots > 0 /\ call.max_cols > 0

\* C1: for n_plots > 0 and max_cols > 0, find_pretty_grid returns (rows, cols)
\* with rows * cols >= n_plots and 1 <= cols <= max_cols, also when
\* n_plots > max_cols * max_cols.
C1_GridFits ==
    (GridDone /\ Positive) =>
        /\ ret.kind = "return"
        /\ ret.value[1] * ret.value[2] >= call.n_plots
        /\ 1 <= ret.value[2]
        /\ ret.value[2] <= call.max_cols

\* a grid returned for more plots than max_cols * max_cols (empty column scan)
C1_Witness ==
    /\ GridDone /\ Positive
    /\ call.n_plots > call.max_cols * call.max_cols
    /\ call.n_plots % call.max_cols # 0
    /\ ret.kind = "return"

\* the column counts the claim ranges over: ceil(n_plots / max_cols) .. max_cols
Feasible == IntCeilDiv(call.n_plots, call.max_cols)..call.max_cols

Waste(c) == IntCeilDiv(call.n_plots, c) * c - call.n_plots

\* C2: the returned (rows, cols) minimizes rows * cols - n_plots over the column
\* counts c in ceil(n_plots / max_cols) .. max_cols with rows = ceil(n_plots / c),
\* returns the largest column count reaching the minimum, gives (4,4), (3,4),
\* (2,5) for (16,5), (11,5), (10,5), and (n_plots / max_cols, max_cols) whenever
\* max_cols divides n_plots.
C2_GridMinimal ==
    (GridDone /\ Positive) =>
        /\ ret.kind = "return"
        /\ LET rows == ret.value[1]
               cols == ret.value[2]
           IN  /\ Feasible # {} => cols \in Feasible
               /\ \A c \in Feasible :
                    /\ rows * cols - call.n_plots <= Waste(c)
                    /\ Waste(c) = rows * cols - call.n_plots => c <= cols
               /\ Feasible # {} => rows = IntCeilDiv(call.n_plots, cols)
        /\ (call.n_plots = 16 /\ call.max_cols = 5) => ret.value = <<4, 4>>
        /\ (call.n_plots = 11 /\ call.max_cols = 5) => ret.value = <<3, 4>>
        /\ (call.n_plots = 10 /\ call.max_cols = 5) => ret.value = <<2, 5>>
        /\ call.n_plots % call.max_cols = 0 =>
               ret.value = <<call.n_plots \div call.max_cols, call.max_cols>>

\* a grid chosen on a tie: two feasible column counts waste equally little and
\* neither fits perfectly
C2_Witness ==
    /\ GridDone /\ Positive
    /\ ret.kind = "return"
    /\ ret.value[1] * ret.value[2] > call.n_plots
    /\ \E c \in Feasible :
          /\ c < ret.value[2]
          /\ Waste(c) = ret.value[1] * ret.value[2] - call.n_plots

\* C3: find_pretty_grid called with n_plots <= 0 or max_cols <= 0 raises an
\* input-validation error and returns no grid shape.
C3_DegenerateRaises ==
    (GridDone /\ ~Positive) =>
        ret.kind = "raise"

----------------------------------------------------------------------------
(* Claims about plot_coefficients *)

CoefDone == pc = "done" /\ call.fn = "plot_coefficients"

NonzeroPositions == {i \in 1..Len(call.coefficients) : call.coefficients[i] # 0}

\* the drawn bars are the coefficients at the positions pos, in this order
DrawnFrom(pos) ==
    /\ Len(canvas.heights) = Len(pos)
    /\ Len(canvas.labels) = Len(pos)
    /\ \A i \in 1..Len(pos) :
          /\ canvas.heights[i] = call.coefficients[pos[i]]
          /\ canvas.labels[i] = call.feature_names[pos[i]]

\* C4: for a 1-d coefficient vector and n_top_features >= 0, plot_coefficients
\* draws exactly min(n_top_features, number of nonzero coefficients) bars: the
\* nonzero coefficients of largest absolute value, by signed value ascending,
\* each labelled with the feature name of its original position.
C4_TopBars ==
    (/\ CoefDone
     /\ Len(call.shape) = 1
     /\ Len(call.coefficients) = Len(call.feature_names)) =>
        /\ canvas.kind = "bars"
        /\ Len(canvas.heights) = Min(call.n_top_features, Cardinality(NonzeroPositions))
        /\ \A i \in 1..(Len(canvas.heights) - 1) :
              canvas.heights[i] <= canvas.heights[i + 1]
        /\ \E chosen \in SUBSET NonzeroPositions :
              /\ \A i \in chosen : \A j \in NonzeroPositions \ chosen :
                    Abs(call.coefficients[i]) >= Abs(call.coefficients[j])
              /\ \E pos \in [1..Cardinality(chosen) -> chosen] :
                    /\ \A i, j \in DOMAIN pos : i # j => pos[i] # pos[j]
                    /\ DrawnFrom(pos)

\* the number of axes whose length is not one
LongAxes == Cardinality({i \in DOMAIN call.shape : call.shape[i] # 1})

Rejected == ret = Raise("ValueError") /\ canvas = EmptyCanvas

\* C5 as stated: plot_coefficients raises a ValueError, before drawing anything,
\* whenever the coefficient array has more than one axis (shapes (1, n) and
\* (n, 1) included) and whenever the number of coefficients differs from the
\* number of feature names.
C5_AnyTwoAxesRejected ==
    (/\ CoefDone
     /\ \/ Len(call.shape) > 1
        \/ Len(call.coefficients) # Len(call.feature_names)) => Rejected

\* C5 (amended): plot_coefficients raises a ValueError, before drawing anything,
\* whenever the coefficient array has more than one axis of length other than
\* one and whenever the number of coefficients differs from the number of
\* feature names; an array with at most one such axis, a (1, n) row or an
\* (n, 1) column included, is drawn when it comes with as many feature names
\* and holds a nonzero coefficient.
C5_SqueezedRejected ==
    CoefDone =>
        IF LongAxes > 1 \/ Len(call.coefficients) # Len(call.feature_names)
        THEN Rejected
        ELSE NonzeroPositions # {} => (ret.kind = "return" /\ canvas.kind = "bars")

\* a true matrix is rejected although its size matches the number of names
C5_Witness ==
    /\ CoefDone
    /\ LongAxes > 1
    /\ Len(call.coefficients) = Len(call.feature_names)
    /\ Len(call.coefficients) > 0
    /\ Rejected

\* a row vector with matching names is accepted
C5_WitnessRow ==
    /\ CoefDone
    /\ Len(call.shape) = 2 /\ call.shape[1] = 1 /\ call.shape[2] > 1
    /\ canvas.kind = "bars"

----------------------------------------------------------------------------
(* Claims about class_hists *)

\* C6: class_hists always draws its histograms over at least 10 bins, whatever
\* binning was requested ("auto", an integer or explicit edges), also when the
\* requested binning yields fewer than 10 bins (e.g. exactly 9).
C6_AtLeastTenBins ==
    (pc = "done" /\ call.fn = "class_hists") => canvas.bars_per_class >= 10

----------------------------------------------------------------------------
(* Claims about _fill_missing_categorical *)

\* C7: for every input table, _fill_missing_categorical returns a table with no
\* missing entry, where each missing entry of an object column became
\* "dabl_missing" and each missing entry of any other column became (largest
\* numeric value of the table) + 1, greater than every non-missing numeric
\* value; the caller's table is left unmodified.
C7_AllFilled ==
    (pc = "done" /\ call.fn = "_fill_missing_categorical") =>
        /\ ret.kind = "return"
        /\ X = call.X
        /\ DOMAIN ret.value = DOMAIN call.X
        /\ \A c \in DOMAIN call.X : \A r \in 1..NRows :
              LET before == call.X[c].cells[r]
                  after == ret.value[c].cells[r]
              IN  /\ ~after.na
                  /\ ~before.na => after = before
                  /\ (before.na /\ call.X[c].dtype = "object") =>
                        after = Str("dabl_missing")
                  /\ (before.na /\ call.X[c].dtype # "object") =>
                        /\ after.s = ""
                        /\ \A d \in DOMAIN call.X : \A q \in 1..NRows :
                              (call.X[d].dtype = "numeric" /\ ~call.X[d].cells[q].na)
                                  => after.x > call.X[d].cells[q].x
                        /\ \E d \in DOMAIN call.X : \E q \in 1..NRows :
                              /\ call.X[d].dtype = "numeric"
                              /\ ~call.X[d].cells[q].na
                              /\ after.x = call.X[d].cells[q].x + 1

----------------------------------------------------------------------------
(* Claims about _prune_categories *)

\* C8: for every categorical series and every K >= 0, _prune_categories(series, K)
\* returns a series of the same length with at most K + 1 distinct values, in
\* which every entry whose category is not among the K most frequent and every
\* missing entry equals "dabl_other", and every entry whose category is among
\* the K most frequent is unchanged.
C8_Pruned ==
    (pc = "done" /\ call.fn = "_prune_categories") =>
        /\ ret.kind = "return"
        /\ Len(ret.value) = Len(call.series)
        /\ Cardinality(Range(ret.value)) <= call.max_categories + 1
        /\ \E kept \in SUBSET CategoriesOf(call.series) :
              /\ Cardinality(kept) =
                    Min(call.max_categories, Cardinality(CategoriesOf(call.series)))
              /\ \A c \in kept : \A d \in CategoriesOf(call.series) \ kept :
                    Count(call.series, c) >= Count(call.series, d)
              /\ \A i \in DOMAIN call.series :
                    ret.value[i] =
                        IF ~call.series[i].na /\ call.series[i].s \in kept
                        THEN call.series[i]
                        ELSE Str("dabl_other")

----------------------------------------------------------------------------
(* Claims about _inlier_range and _find_inliers *)

InlierRangeDone == pc = "done" /\ call.fn = "_inlier_range"

FindInliersDone == pc = "done" /\ call.fn = "_find_inliers"

HasValue == \E i \in DOMAIN call.series : ~call.series[i].na

\* the 1st and the 99th percentile of the series of the call, in hundredths
Low == nanquantile(call.series, LowPct).x

High == nanquantile(call.series, HighPct).x

\* the mask is true exactly for the missing entries and those within
\* [low - (high - low)/2, high + (high - low)/2]
MaskOf(low, high) ==
    [i \in DOMAIN call.series |->
        \/ call.series[i].na
        \/ /\ 3 * low - high <= 2 * Hundred * call.series[i].x
           /\ 2 * Hundred * call.series[i].x <= 3 * high - low]

\* C9: for every numeric series with at least one non-missing value (a constant
\* series included), _inlier_range returns a range and _find_inliers returns a
\* boolean mask of the same length, true exactly for the entries that are
\* missing or lie in [returned_low, returned_high], with a warning carrying the
\* count when some entry is dropped and nothing raised.
C9_NeverAborts ==
    /\ (InlierRangeDone /\ HasValue) => ret.kind = "return"
    /\ (FindInliersDone /\ HasValue) =>
          /\ ret.kind = "return"
          /\ ret.value = MaskOf(Low, High)
          /\ LET dropped == Cardinality({i \in DOMAIN ret.value : ~ret.value[i]})
             IN  warnings = IF dropped > 0
                            THEN <<[category |-> "UserWarning", dropped |-> dropped]>>
                            ELSE <<>>

\* the returned pair (in two-hundredths) is low - (high - low) / 2 and
\* high + (high - low) / 2, strictly around [low, high], twice as wide
WidenedByHalf(low, high) ==
    /\ ret.kind = "return"
    /\ 2 * ret.value[1] = 2 * (2 * low) - (2 * high - 2 * low)
    /\ 2 * ret.value[2] = 2 * (2 * high) + (2 * high - 2 * low)
    /\ ret.value[1] < 2 * low
    /\ 2 * high < ret.value[2]
    /\ ret.value[2] - ret.value[1] = 2 * (2 * high - 2 * low)

====
